---------------------------- MODULE Spec2Model ----------------------------
(***************************************************************************)
(* A model of deepEqual.js: the recursive structural-equality predicate    *)
(* deepEqual(val1, val2) with its helpers isPrimitive, isObject, nestedObj *)
(* and testKeys.                                                           *)
(*                                                                         *)
(* JavaScript values are modelled as records [t, v]: t is the runtime kind *)
(* and v a sequence of naturals (a number's value, a string's UTF-16 code  *)
(* units, an object's address in the heap).  Objects live in a heap, a     *)
(* sequence of [isArray, props] records, so that two references are        *)
(* strictly equal exactly when they hold the same address, whatever the    *)
(* objects contain.  props is the object's own enumerable properties in    *)
(* insertion order, each a pair <<key, value>>.                            *)
(***************************************************************************)
EXTENDS Naturals, Sequences, FiniteSets

VARIABLES heap, val1, val2, stack, result

vars == <<heap, val1, val2, stack, result>>

----------------------------------------------------------------------------
(* JavaScript values *)

Undefined == [t |-> "undefined", v |-> <<>>]

Null == [t |-> "null", v |-> <<>>]

Num(n) == [t |-> "number", v |-> <<n>>]

\* NaN is a number without a value
NaN == [t |-> "number", v |-> <<>>]

Str(s) == [t |-> "string", v |-> s]

True == [t |-> "boolean", v |-> <<1>>]

\* a function value; v is its identity
Fn == [t |-> "function", v |-> <<>>]

Ref(p) == [t |-> "object", v |-> <<p>>]

IsNaN(x) == x.t = "number" /\ x.v = <<>>

IsRef(x) == x.t = "object"

\* typeof: null reports "object"
Typeof(x) == IF x.t = "null" THEN "object" ELSE x.t

\* val1 === val2: no coercion; NaN differs from itself; objects by address
StrictEq(x, y) == ~IsNaN(x) /\ ~IsNaN(y) /\ x = y

----------------------------------------------------------------------------
(* Strings: sequences of UTF-16 code units *)

CommaStr == <<44>>

\* "[object Object]"
ObjectObjectStr == <<91, 111, 98, 106, 101, 99, 116, 32, 79, 98, 106, 101, 99, 116, 93>>

\* "NaN"
NaNStr == <<78, 97, 78>>

\* "undefined", "null", "true"
UndefinedStr == <<117, 110, 100, 101, 102, 105, 110, 101, 100>>

NullStr == <<110, 117, 108, 108>>

TrueStr == <<116, 114, 117, 101>>

\* the source text of the function value: "()=>{}"
FnSourceStr == <<40, 41, 61, 62, 123, 125>>

RECURSIVE NumToStr(_)
NumToStr(n) == IF n < 10 THEN <<48 + n>> ELSE NumToStr(n \div 10) \o <<48 + (n % 10)>>

IsDigits(s) == \A i \in 1..Len(s) : s[i] \in 48..57

RECURSIVE DigitsValue(_)
DigitsValue(s) ==
    IF s = <<>> THEN 0 ELSE 10 * DigitsValue(SubSeq(s, 1, Len(s) - 1)) + (s[Len(s)] - 48)

\* ToNumber of a string: "" is 0, a run of digits its value, anything else NaN
StrToNum(s) == IF IsDigits(s) THEN Num(DigitsValue(s)) ELSE NaN

\* s < t by code units, as the default sort comparator compares
StrLess(s, t) ==
    \E i \in 1..(Len(t)) :
        /\ i - 1 <= Len(s)
        /\ \A j \in 1..(i - 1) : s[j] = t[j]
        /\ (i > Len(s) \/ s[i] < t[i])

----------------------------------------------------------------------------
(* The heap *)

Deref(H, x) == H[x.v[1]]

\* Array.isArray(value)
IsArray(H, x) == IsRef(x) /\ Deref(H, x).isArray

HasKey(H, x, k) == \E i \in 1..Len(Deref(H, x).props) : Deref(H, x).props[i][1] = k

\* value[key]: an absent property reads as undefined
Get(H, x, k) ==
    IF IsRef(x) /\ HasKey(H, x, k)
    THEN LET i == CHOOSE j \in 1..Len(Deref(H, x).props) : Deref(H, x).props[j][1] = k
         IN Deref(H, x).props[i][2]
    ELSE Undefined

\* String(value)
RECURSIVE ToStr(_, _)
RECURSIVE Join(_, _, _)
ToStr(H, x) ==
    CASE x.t = "undefined" -> UndefinedStr
      [] x.t = "null" -> NullStr
      [] x.t = "boolean" -> TrueStr
      [] x.t = "number" -> IF IsNaN(x) THEN NaNStr ELSE NumToStr(x.v[1])
      [] x.t = "string" -> x.v
      [] x.t = "function" -> FnSourceStr
      [] x.t = "object" -> IF Deref(H, x).isArray
                           THEN Join(H, Deref(H, x).props, 1)
                           ELSE ObjectObjectStr

\* Array.prototype.join from element i on: null and undefined join as ""
Join(H, props, i) ==
    IF i > Len(props) THEN <<>>
    ELSE LET e == props[i][2]
             s == IF e.t \in {"undefined", "null"} THEN <<>> ELSE ToStr(H, e)
         IN IF i = Len(props) THEN s ELSE s \o CommaStr \o Join(H, props, i + 1)

\* String([key, value]), what the default sort compares entries by
EntryToStr(H, e) ==
    e[1] \o CommaStr \o (IF e[2].t \in {"undefined", "null"} THEN <<>> ELSE ToStr(H, e[2]))

\* Array.prototype.sort() with the default comparator, on pairs <<string, item>>:
\* stable, ascending by code units
InsertSorted(sorted, p) ==
    LET n == Cardinality({i \in 1..Len(sorted) : ~StrLess(p[1], sorted[i][1])})
    IN SubSeq(sorted, 1, n) \o <<p>> \o SubSeq(sorted, n + 1, Len(sorted))

RECURSIVE SortPairs(_)
SortPairs(ps) ==
    IF ps = <<>> THEN <<>>
    ELSE InsertSorted(SortPairs(SubSeq(ps, 1, Len(ps) - 1)), ps[Len(ps)])

\* Object.entries(obj).sort()
SortedEntries(H, x) ==
    LET props == Deref(H, x).props
        sorted == SortPairs([i \in 1..Len(props) |-> <<EntryToStr(H, props[i]), props[i]>>])
    IN [i \in 1..Len(props) |-> sorted[i][2]]

\* Object.keys(obj).sort()
SortedKeys(H, x) ==
    LET props == Deref(H, x).props
        sorted == SortPairs([i \in 1..Len(props) |-> <<props[i][1], props[i][1]>>])
    IN [i \in 1..Len(props) |-> sorted[i][2]]

----------------------------------------------------------------------------
(* Operators of the language the code uses *)

\* a value in a condition: undefined, null, false, 0, NaN and "" are falsy
Truthy(x) ==
    CASE x.t \in {"undefined", "null"} -> FALSE
      [] x.t = "boolean" -> x.v = <<1>>
      [] x.t = "number" -> ~IsNaN(x) /\ x.v # <<0>>
      [] x.t = "string" -> x.v # <<>>
      [] OTHER -> TRUE

\* ToPrimitive of an object or function: its string
ToPrimitive(H, x) == Str(ToStr(H, x))

\* x == y, the coercing comparison
RECURSIVE LooseEq(_, _, _)
LooseEq(H, x, y) ==
    CASE x.t = y.t -> StrictEq(x, y)
      [] {x.t, y.t} = {"undefined", "null"} -> TRUE
      [] x.t \in {"undefined", "null"} \/ y.t \in {"undefined", "null"} -> FALSE
      [] x.t = "number" /\ y.t = "string" -> StrictEq(x, StrToNum(y.v))
      [] x.t = "string" /\ y.t = "number" -> StrictEq(StrToNum(x.v), y)
      [] x.t = "boolean" -> LooseEq(H, Num(x.v[1]), y)
      [] y.t = "boolean" -> LooseEq(H, x, Num(y.v[1]))
      [] x.t \in {"object", "function"} /\ y.t \in {"object", "function"} -> FALSE
      [] x.t \in {"object", "function"} -> LooseEq(H, ToPrimitive(H, x), y)
      [] y.t \in {"object", "function"} -> LooseEq(H, x, ToPrimitive(H, y))

----------------------------------------------------------------------------
(* The code.  The body of a function either returns a value ("true",      *)
(* "false", or "undefined" when it ends without a return statement) or    *)
(* ends in `return f(x, y)`, a call whose result it hands back unchanged. *)

Return(r) == [kind |-> "return", val |-> r, fn |-> "none", x |-> Undefined, y |-> Undefined]

Call(f, x, y) == [kind |-> "call", val |-> "pending", fn |-> f, x |-> x, y |-> y]

BoolResult(b) == IF b THEN "true" ELSE "false"

isPrimitive(val) ==
    IF val.t = "null" THEN TRUE
    ELSE IF Typeof(val) = "object" \/ Typeof(val) = "function" THEN FALSE
    ELSE TRUE

isObject(value) == Truthy(value) /\ Typeof(value) = "object"

\* deepEqual without its first test, the strict identity of lines 23-25
deepEqualBodyNoIdentity(H, v1, v2) ==
    IF isPrimitive(v1) /\ isPrimitive(v2) THEN Return(BoolResult(StrictEq(v1, v2)))
    ELSE IF \/ (isPrimitive(v1) /\ Typeof(v2) = "object")
            \/ (isPrimitive(v2) /\ Typeof(v1) = "object") THEN Return("false")
    ELSE IF isObject(v1) /\ isObject(v2)
         THEN IF IsArray(H, v1) # IsArray(H, v2) THEN Return("false")
              ELSE IF IsArray(H, v1) = FALSE /\ IsArray(H, v1) = FALSE
                   THEN Call("nestedObj", v1, v2)
              ELSE Call("testKeys", v1, v2)
    ELSE Return("undefined")

deepEqualBody(H, v1, v2) ==
    IF StrictEq(v1, v2) THEN Return("true")
    ELSE IF isPrimitive(v1) /\ isPrimitive(v2) THEN Return(BoolResult(StrictEq(v1, v2)))
    ELSE IF \/ (isPrimitive(v1) /\ Typeof(v2) = "object")
            \/ (isPrimitive(v2) /\ Typeof(v1) = "object") THEN Return("false")
    ELSE IF isObject(v1) /\ isObject(v2)
         THEN IF IsArray(H, v1) # IsArray(H, v2) THEN Return("false")
              ELSE IF IsArray(H, v1) = FALSE /\ IsArray(H, v1) = FALSE
                   THEN Call("nestedObj", v1, v2)
              ELSE Call("testKeys", v1, v2)
    ELSE Return("undefined")

\* the for loop of nestedObj from index i on; a property key is a string, never null
RECURSIVE nestedObjLoop(_, _, _, _, _, _)
nestedObjLoop(H, testObj1, testObj2, entries1, entries2, i) ==
    IF i > Len(entries1) THEN Return("undefined")
    ELSE LET objectKey1 == Str(entries1[i][1])
             objectValue1 == entries1[i][2]
             objectKey2 == Str(entries2[i][1])
             objectValue2 == entries2[i][2]
         IN IF StrictEq(objectKey1, Null) /\ StrictEq(objectKey2, Null) THEN Return("true")
            ELSE IF StrictEq(objectKey1, Null) \/ StrictEq(objectKey2, Null)
                 THEN Return("false")
            ELSE IF isObject(objectValue1) /\ isObject(objectValue2)
                 THEN Call("nestedObj", objectValue1, objectValue2)
            ELSE IF isObject(objectValue1) \/ isObject(objectValue2) THEN Return("false")
            ELSE IF ~isObject(objectValue1) /\ ~isObject(objectValue2)
                 THEN Call("testKeys", testObj1, testObj2)
            ELSE nestedObjLoop(H, testObj1, testObj2, entries1, entries2, i + 1)

nestedObjBody(H, testObj1, testObj2) ==
    IF isObject(testObj1) /\ isObject(testObj2)
    THEN LET entries1 == SortedEntries(H, testObj1)
             entries2 == SortedEntries(H, testObj2)
         IN IF Len(entries1) # Len(entries2) THEN Return("false")
            ELSE nestedObjLoop(H, testObj1, testObj2, entries1, entries2, 1)
    ELSE Return("undefined")

\* the loop of testKeys without the test of the runtime kinds of lines 160-165
RECURSIVE testKeysLoopNoKindCheck(_, _, _, _, _)
testKeysLoopNoKindCheck(H, x, y, val1Keys, i) ==
    IF i > Len(val1Keys) THEN Return("true")
    ELSE LET key == val1Keys[i]
         IN IF ~LooseEq(H, Get(H, x, key), Get(H, y, key))
            THEN IF IsArray(H, Get(H, x, key)) /\ IsArray(H, Get(H, y, key))
                 THEN Call("testKeys", Get(H, x, key), Get(H, y, key))
                 ELSE Return("false")
            ELSE testKeysLoopNoKindCheck(H, x, y, val1Keys, i + 1)

\* the loop of testKeys calling testKeys on its own arguments at line 155
RECURSIVE testKeysLoopSameArgs(_, _, _, _, _)
testKeysLoopSameArgs(H, x, y, val1Keys, i) ==
    IF i > Len(val1Keys) THEN Return("true")
    ELSE LET key == val1Keys[i]
         IN IF ~LooseEq(H, Get(H, x, key), Get(H, y, key))
            THEN IF IsArray(H, Get(H, x, key)) /\ IsArray(H, Get(H, y, key))
                 THEN Call("testKeys", x, y)
                 ELSE Return("false")
            ELSE IF Typeof(Get(H, x, key)) # Typeof(Get(H, y, key)) THEN Return("false")
            ELSE testKeysLoopSameArgs(H, x, y, val1Keys, i + 1)

\* the for-of loop of testKeys over val1Keys from index i on
RECURSIVE testKeysLoop(_, _, _, _, _)
testKeysLoop(H, x, y, val1Keys, i) ==
    IF i > Len(val1Keys) THEN Return("true")
    ELSE LET key == val1Keys[i]
         IN IF ~LooseEq(H, Get(H, x, key), Get(H, y, key))
            THEN IF IsArray(H, Get(H, x, key)) /\ IsArray(H, Get(H, y, key))
                 THEN Call("testKeys", Get(H, x, key), Get(H, y, key))
                 ELSE Return("false")
            ELSE IF Typeof(Get(H, x, key)) # Typeof(Get(H, y, key)) THEN Return("false")
            ELSE testKeysLoop(H, x, y, val1Keys, i + 1)

testKeysBody(H, x, y) ==
    LET val1Keys == SortedKeys(H, x)
        val2Keys == SortedKeys(H, y)
    IN IF Len(val1Keys) # Len(val2Keys) THEN Return("false")
       ELSE testKeysLoop(H, x, y, val1Keys, 1)

Body(H, f, x, y) ==
    IF f = "nestedObj" THEN nestedObjBody(H, x, y) ELSE testKeysBody(H, x, y)

\* the value a call of nestedObj or testKeys returns, through the calls it ends in
RECURSIVE CallResult(_, _, _, _)
CallResult(H, f, x, y) ==
    LET o == Body(H, f, x, y)
    IN IF o.kind = "return" THEN o.val ELSE CallResult(H, o.fn, o.x, o.y)

\* the value deepEqual(v1, v2) returns
deepEqual(H, v1, v2) ==
    LET o == deepEqualBody(H, v1, v2)
    IN IF o.kind = "return" THEN o.val ELSE CallResult(H, o.fn, o.x, o.y)

----------------------------------------------------------------------------
(* Inputs.  A call deepEqual(val1, val2) is checked on three families of   *)
(* input pairs, each with the heap its objects live in.                    *)

\* the longest array and the most properties of an enumerated compound
MaxLen == 2

SeqsUpTo(S, n) == UNION {[1..k -> S] : k \in 0..n}

\* the array literal [vals[1], vals[2], ...]: its keys are the indices "0", "1", ...
ArrayObj(vals) ==
    [isArray |-> TRUE, props |-> [i \in 1..Len(vals) |-> <<NumToStr(i - 1), vals[i]>>]]

\* the object literal {keys[1]: vals[1], ...}, properties in insertion order
MapObj(keys, vals) ==
    [isArray |-> FALSE, props |-> [i \in 1..Len(keys) |-> <<keys[i], vals[i]>>]]

EmptyMap == MapObj(<<>>, <<>>)

Arrays(V, n) == {ArrayObj(vals) : vals \in SeqsUpTo(V, n)}

KeySeqs(K, n) ==
    {ks \in SeqsUpTo(K, n) : \A i, j \in 1..Len(ks) : ks[i] = ks[j] => i = j}

Maps(K, V, n) ==
    UNION {{MapObj(ks, vals) : vals \in [1..Len(ks) -> V]} : ks \in KeySeqs(K, n)}

KeyA == <<97>>

KeyB == <<98>>

KeyC == <<99>>

\* the key "a,"
KeyAComma == <<97, 44>>

\* the string "1"
OneStr == <<49>>

\* Family 1: every pair of primitives, functions and compounds of up to MaxLen
\* entries, whose entries are primitives or one of three objects built before:
\* the arrays [1] and [1] (equal, distinct) and the empty object {}
Pool == <<ArrayObj(<<Num(1)>>), ArrayObj(<<Num(1)>>), EmptyMap>>

TopPrims == {Undefined, Null, Num(1), Str(OneStr), NaN, True, Fn}

Elems == {Undefined, Null, Num(1), Str(OneStr)} \cup {Ref(p) : p \in 1..Len(Pool)}

Compounds == Arrays(Elems, MaxLen) \cup Maps({KeyA, KeyB}, Elems, MaxLen)

\* one argument: a primitive, or a compound built for this argument
Sides ==
    [prim : {TRUE}, val : TopPrims, obj : {EmptyMap}]
        \cup [prim : {FALSE}, val : {Undefined}, obj : Compounds]

SideVal(s, addr) == IF s.prim THEN s.val ELSE Ref(addr)

GenericInit ==
    \E sa \in Sides, sb \in Sides :
        /\ heap = Pool \o <<sa.obj, sb.obj>>
        /\ val1 = SideVal(sa, Len(Pool) + 1)
        /\ val2 = SideVal(sb, Len(Pool) + 2)

\* the same compound passed as both arguments
AliasInit ==
    \E c \in Compounds :
        /\ heap = Pool \o <<c, EmptyMap>>
        /\ val1 = Ref(Len(Pool) + 1)
        /\ val2 = Ref(Len(Pool) + 1)

\* Family 2: two values of the shape {a: {b: [1, 2, {c: x}]}}, built separately,
\* the second array holding its own innermost object or the first value's
LeafVals == {Num(3), Num(4), Undefined, Str(OneStr)}

NestedHeap(x, y, inner) ==
    << MapObj(<<KeyC>>, <<x>>),
       ArrayObj(<<Num(1), Num(2), Ref(1)>>),
       MapObj(<<KeyB>>, <<Ref(2)>>),
       MapObj(<<KeyA>>, <<Ref(3)>>),
       MapObj(<<KeyC>>, <<y>>),
       ArrayObj(<<Num(1), Num(2), Ref(inner)>>),
       MapObj(<<KeyB>>, <<Ref(6)>>),
       MapObj(<<KeyA>>, <<Ref(7)>>) >>

NestedInit ==
    \E x \in LeafVals, y \in LeafVals, inner \in {1, 5} :
        /\ heap = NestedHeap(x, y, inner)
        /\ val1 = Ref(4)
        /\ val2 = Ref(8)

\* Family 3: objects whose keys are "a" and "a,", holding primitives or one of
\* the arrays [undefined, 1] and [undefined, 1] (equal, distinct)
OrderPool == <<ArrayObj(<<Undefined, Num(1)>>), ArrayObj(<<Undefined, Num(1)>>)>>

OrderMaps == Maps({KeyA, KeyAComma}, {Undefined, Num(1), Ref(1), Ref(2)}, 2)

OrderInit ==
    \E m1 \in OrderMaps, m2 \in OrderMaps :
        /\ heap = OrderPool \o <<m1, m2>>
        /\ val1 = Ref(Len(OrderPool) + 1)
        /\ val2 = Ref(Len(OrderPool) + 2)

----------------------------------------------------------------------------
(* The call deepEqual(val1, val2), one function body a step.  stack holds  *)
(* the calls of nestedObj and testKeys that wait for the call they ended   *)
(* in; result is "pending" until deepEqual returns.                        *)

Init ==
    /\ (GenericInit \/ AliasInit \/ NestedInit \/ OrderInit)
    /\ stack = <<>>
    /\ result = "pending"

Frame(o) == [fn |-> o.fn, x |-> o.x, y |-> o.y]

Top == stack[Len(stack)]

\* what a finished body does: its value goes back through every waiting call
Finish(o) ==
    IF o.kind = "return"
    THEN result' = o.val /\ stack' = <<>>
    ELSE result' = "pending" /\ stack' = Append(stack, Frame(o))

CallDeepEqual ==
    /\ result = "pending"
    /\ stack = <<>>
    /\ Finish(deepEqualBody(heap, val1, val2))
    /\ UNCHANGED <<heap, val1, val2>>

StepNestedObj ==
    /\ result = "pending"
    /\ stack # <<>>
    /\ Top.fn = "nestedObj"
    /\ Finish(nestedObjBody(heap, Top.x, Top.y))
    /\ UNCHANGED <<heap, val1, val2>>

StepTestKeys ==
    /\ result = "pending"
    /\ stack # <<>>
    /\ Top.fn = "testKeys"
    /\ Finish(testKeysBody(heap, Top.x, Top.y))
    /\ UNCHANGED <<heap, val1, val2>>

Next == CallDeepEqual \/ StepNestedObj \/ StepTestKeys

Spec == Init /\ [][Next]_vars

----------------------------------------------------------------------------
(* Vocabulary of the properties *)

Done == result # "pending"

IsMap(H, x) == IsRef(x) /\ ~Deref(H, x).isArray

KeySet(H, x) == {Deref(H, x).props[i][1] : i \in 1..Len(Deref(H, x).props)}

Children(H, x) ==
    IF IsRef(x) THEN {Deref(H, x).props[i][2] : i \in 1..Len(Deref(H, x).props)} ELSE {}

\* whether x holds no function value, at any depth
RECURSIVE FunctionFree(_, _)
FunctionFree(H, x) == x.t # "function" /\ \A c \in Children(H, x) : FunctionFree(H, c)

\* the nesting depth of a value: 0 for a primitive, 1 for a flat compound
RECURSIVE Depth(_, _)
Depth(H, x) ==
    IF ~IsRef(x) THEN 0
    ELSE LET ds == {Depth(H, c) : c \in Children(H, x)}
         IN 1 + (IF ds = {} THEN 0 ELSE CHOOSE d \in ds : \A e \in ds : e <= d)

\* the reference structural equality: strictly equal primitives, or compounds of the
\* same kind with the same keys whose corresponding entries are all equal
RECURSIVE StructEq(_, _, _)
StructEq(H, x, y) ==
    IF IsRef(x) /\ IsRef(y)
    THEN /\ Deref(H, x).isArray = Deref(H, y).isArray
         /\ KeySet(H, x) = KeySet(H, y)
         /\ \A k \in KeySet(H, x) : StructEq(H, Get(H, x, k), Get(H, y, k))
    ELSE StrictEq(x, y)

\* the heap with the properties of the object at x put in the order p
Permutations(n) == {p \in [1..n -> 1..n] : \A i, j \in 1..n : p[i] = p[j] => i = j}

Reordered(H, x, p) ==
    [H EXCEPT ![x.v[1]].props = [i \in 1..Len(p) |-> H[x.v[1]].props[p[i]]]]

\* primitives of different runtime kinds that the coercing comparison equates
CrossKind(H, p, q) ==
    /\ ~IsRef(p) /\ ~IsRef(q) /\ p.t # "function" /\ q.t # "function"
    /\ Typeof(p) # Typeof(q)
    /\ LooseEq(H, p, q)

\* flat compounds of one kind with the same keys, alike but for one key, where
\* one holds p and the other q, a cross-kind pair
FlatCrossKindPair(H, x, y) ==
    /\ IsRef(x) /\ IsRef(y)
    /\ Deref(H, x).isArray = Deref(H, y).isArray
    /\ KeySet(H, x) = KeySet(H, y)
    /\ \A c \in Children(H, x) \cup Children(H, y) : ~IsRef(c)
    /\ \E k \in KeySet(H, x) :
          /\ CrossKind(H, Get(H, x, k), Get(H, y, k))
          /\ \A j \in KeySet(H, x) \ {k} : Get(H, x, j) = Get(H, y, j)

----------------------------------------------------------------------------
(* Properties *)

\* C1: deepEqual returns a boolean for every pair of inputs, never an undefined
\* or missing result.
C1_ReturnsBoolean == result \in {"pending", "true", "false"}

\* C2: for function-free inputs deepEqual returns true exactly when the two
\* values are structurally equal (the same primitive, or compounds of the same
\* kind with the same keys whose entries are all recursively equal).
C2_AgreesWithStructural ==
    (Done /\ FunctionFree(heap, val1) /\ FunctionFree(heap, val2))
        => ((result = "true") <=> StructEq(heap, val1, val2))

\* C3: symmetry: deepEqual(val1, val2) yields what deepEqual(val2, val1) yields.
C3_Symmetric == Done => result = deepEqual(heap, val2, val1)

\* C4 as stated: reflexivity: deepEqual(v, v) is true for every non-function
\* value v.
C4_Reflexive == (Done /\ val1 = val2 /\ val1.t # "function") => result = "true"

\* C4 amended: deepEqual(v, v) is true for every non-function value v other
\* than NaN.
C4_ReflexiveExceptNaN ==
    (Done /\ val1 = val2 /\ val1.t # "function" /\ ~IsNaN(val1)) => result = "true"

\* a compound with entries was compared with itself
C4_Witness ==
    /\ Done /\ val1 = val2 /\ IsRef(val1) /\ result = "true"
    /\ \E c \in Children(heap, val1) : IsRef(c)

\* C5: two separately built values of the shape {a: {b: [1, 2, {c: x}]}} and
\* {a: {b: [1, 2, {c: y}]}} compare true when x and y are the same and false
\* when they differ.
C5_NestedEqual ==
    \A x \in LeafVals, y \in LeafVals :
        (Done /\ heap = NestedHeap(x, y, 5) /\ val1 = Ref(4) /\ val2 = Ref(8))
            => ((result = "true") <=> (x = y))

\* C6: two distinct empty objects compare true, and so do two distinct empty
\* arrays.
C6_EmptyCompounds ==
    ( /\ Done /\ IsRef(val1) /\ IsRef(val2) /\ val1 # val2
      /\ Deref(heap, val1).props = <<>> /\ Deref(heap, val2).props = <<>>
      /\ Deref(heap, val1).isArray = Deref(heap, val2).isArray )
        => result = "true"

\* C7: for two map-like objects the result of deepEqual does not depend on the
\* insertion order of the keys of either argument.
C7_OrderInsensitive ==
    (Done /\ IsMap(heap, val1) /\ IsMap(heap, val2))
        => \A p1 \in Permutations(Len(Deref(heap, val1).props)),
              p2 \in Permutations(Len(Deref(heap, val2).props)) :
              deepEqual(Reordered(Reordered(heap, val1, p1), val2, p2), val1, val2) = result

\* C8: deepEqual is false for two primitives of different runtime kinds that
\* the coercing comparison equates (1 and "1", null and undefined), and for two
\* flat maps or arrays alike but for one key or index where one holds such a
\* primitive and the other its counterpart.
C8_CrossKindGuard ==
    (Done /\ (CrossKind(heap, val1, val2) \/ FlatCrossKindPair(heap, val1, val2)))
        => result = "false"

\* two two-entry flat compounds differing in a cross-kind pair were compared
C8_Witness ==
    /\ Done /\ FlatCrossKindPair(heap, val1, val2) /\ result = "false"
    /\ Len(Deref(heap, val1).props) = 2
    /\ CrossKind(heap, Get(heap, val1, KeyB), Get(heap, val2, KeyB))

\* C9: when deepEqual returns true for two map-like objects, they have the same
\* set of own keys.
C9_KeySetAgreement ==
    (Done /\ IsMap(heap, val1) /\ IsMap(heap, val2) /\ result = "true")
        => KeySet(heap, val1) = KeySet(heap, val2)

\* the nesting depth of the shallower input
MinDepth ==
    IF Depth(heap, val1) < Depth(heap, val2) THEN Depth(heap, val1) ELSE Depth(heap, val2)

\* the calls that wait are a chain: the first call is on the arguments of
\* deepEqual, a call of a function by itself is on entries of its arguments, and
\* the only call of another function is nestedObj handing its own arguments to
\* testKeys; neither function waits more often than the inputs are deep
ChainOk ==
    stack # <<>> =>
    /\ stack[1].x = val1 /\ stack[1].y = val2
    /\ \A i \in 1..(Len(stack) - 1) :
          IF stack[i + 1].fn = stack[i].fn
          THEN /\ stack[i + 1].x \in Children(heap, stack[i].x)
               /\ stack[i + 1].y \in Children(heap, stack[i].y)
          ELSE /\ stack[i].fn = "nestedObj" /\ stack[i + 1].fn = "testKeys"
               /\ stack[i + 1].x = stack[i].x /\ stack[i + 1].y = stack[i].y
    /\ \A f \in {"nestedObj", "testKeys"} :
          Cardinality({i \in 1..Len(stack) : stack[i].fn = f}) <= MinDepth
    /\ Len(stack) <= MinDepth + 1

\* what is left to do: nothing once deepEqual has returned, else twice the
\* nesting depth of the running call's first argument, plus the functions that
\* may still be entered at this depth
Measure ==
    IF Done THEN 0
    ELSE IF stack = <<>> THEN 2 * Depth(heap, val1) + 3
    ELSE 2 * Depth(heap, Top.x) + (IF Top.fn = "nestedObj" THEN 2 ELSE 1)

\* a body is there to run: that of deepEqual, or that of the last call made
CanStep == stack = <<>> \/ Top.fn \in {"nestedObj", "testKeys"}

\* C10: a call of deepEqual finishes: every step is a step towards its end, and
\* until it has returned there is a step to take; every call nestedObj or
\* testKeys makes of itself is on values nested in its arguments, the number of
\* such calls never exceeds the nesting depth of the inputs, and nestedObj is
\* not entered again once it has handed its arguments to testKeys.
C10_Termination ==
    /\ [](ChainOk /\ (Done \/ CanStep))
    /\ [][Measure' < Measure]_vars

\* testKeys runs on entries of the compounds nestedObj handed to it
C10_Witness ==
    /\ Len(stack) >= 3
    /\ \E i \in 1..(Len(stack) - 1) : stack[i].fn = "nestedObj" /\ stack[i + 1].fn = "testKeys"
    /\ \E i \in 1..(Len(stack) - 1) : stack[i].fn = stack[i + 1].fn

=============================================================================
